---- MODULE Spec2Model ----
(***************************************************************************)
(* Model of the remote-video acquisition pipeline of                       *)
(* app/controller/main_controller.py: download_video_from_url (the         *)
(* recursive retry state machine, the HEAD probe, the streamed GET with    *)
(* its size ceiling) and _is_valid_video_file (the content sniffer).       *)
(*                                                                         *)
(* URLs are strings in the program.  Here a URL is a record that names the *)
(* shape of the string and the parts the program's regular expressions     *)
(* read out of it; two records are equal exactly when the strings are.     *)
(***************************************************************************)
EXTENDS Integers, Sequences, FiniteSets, TLC

None == "None"

(***************************************************************************)
(* Bounds of the model.                                                    *)
(***************************************************************************)
\* settings.MAX_VIDEO_SIZE_MB (5000 by default), kept small
MAX_VIDEO_SIZE_MB == 1
\* bytes per MB: 1024 * 1024 in the program, scaled down so that a body
\* crosses the ceiling within MaxChunks chunks of at most chunk_size bytes
\* and a body of one full chunk and a chunk of 5 bytes is exactly the ceiling
BytesPerMB == 8197
\* the server sends at most this many chunks in one body
MaxChunks == 3
\* the server answers with at most this many interstitial pages in one acquisition
MaxPages == 3
\* analyze_with_gemini tries at most this many models
MaxModels == 2

(***************************************************************************)
(* Program constants.                                                      *)
(***************************************************************************)
MAX_RETRIES == 3
\* response.aiter_bytes(chunk_size=8192)
CHUNK_SIZE == 8192
\* first_bytes += chunk[:min(12, len(chunk))]
FIRST_BYTES_LEN == 12
\* f.read(16) in _is_valid_video_file
SNIFF_READ_LEN == 16
\* file_size > 1024 before ffprobe is tried
MIN_PROBE_SIZE == 1024

MaxSizeBytes == MAX_VIDEO_SIZE_MB * BytesPerMB

Min(a, b) == IF a < b THEN a ELSE b

(***************************************************************************)
(* URLs.                                                                   *)
(*   share       https://drive.google.com/file/d/<id>/view                 *)
(*   uc          https://drive.google.com/uc?export=download&id=<id>       *)
(*   ucc         https://drive.google.com/uc?export=download               *)
(*                       &confirm=<tok>&id=<id>                            *)
(*   usercontent https://drive.usercontent.google.com/download?id=<id>     *)
(*                       &export=&authuser=0&confirm=<tok>[&uuid=<uuid>]   *)
(*   folder      https://drive.google.com/drive/folders/x  (no file id)    *)
(*   loomshare   https://www.loom.com/share/<id>                           *)
(*   loomcdn     https://cdn.loom.com/sessions/videos/<id>/transcoded.mp4  *)
(*   direct      https://example.com/video                                 *)
(*   noscheme    not-a-url                                                 *)
(*   nohost      http:uc?export=download&id=<id>   (a scheme, no host)     *)
(***************************************************************************)
Ids == {"A"}
\* the id of another resource, which a link of a page can name
OtherId == "B"
Tokens == {"x", "t"}
Uuids == {"u1"}

Url(k, id, tok, uuid) == [k |-> k, id |-> id, tok |-> tok, uuid |-> uuid]
Share(id) == Url("share", id, None, None)
Uc(id) == Url("uc", id, None, None)
UcConfirm(tok, id) == Url("ucc", id, tok, None)
UserContent(id, tok, uuid) == Url("usercontent", id, tok, uuid)
Folder == Url("folder", None, None, None)
LoomShare(id) == Url("loomshare", id, None, None)
LoomCdn(id) == Url("loomcdn", id, None, None)
Direct == Url("direct", None, None, None)
NoScheme == Url("noscheme", None, None, None)
NoHost(id) == Url("nohost", id, None, None)

\* urlparse(url): not parsed_url.scheme or not parsed_url.netloc
HasSchemeAndHost(u) == u.k \notin {"noscheme", "nohost"}
\* "drive.google.com" in url.lower()
HasDriveHost(u) == u.k \in {"share", "uc", "ucc", "folder"}
\* re.search(r'/file/d/([a-zA-Z0-9_-]+)', url)
SharePathId(u) == IF u.k = "share" THEN u.id ELSE None
\* re.search(r'[?&]id=([a-zA-Z0-9_-]+)', url)
QueryId(u) == IF u.k \in {"uc", "ucc", "usercontent", "nohost"} THEN u.id ELSE None
\* "loom.com" in url.lower() or "loom.share" in url.lower()
HasLoomHost(u) == u.k \in {"loomshare", "loomcdn"}
\* "/share/" in url and re.search(r'/share/([a-zA-Z0-9]+)', url)
LoomShareId(u) == IF u.k = "loomshare" THEN u.id ELSE None

(***************************************************************************)
(* The URL classifier: the request URL and resource id that the Drive and  *)
(* Loom rewriting leaves, or bad = TRUE for a Drive URL without an id.     *)
(***************************************************************************)
\* a rewriting that every invocation does, whether it was given an id or not
Classify_EveryAttempt(url, file_id) ==
  IF HasDriveHost(url)
  THEN IF SharePathId(url) # None
       THEN [bad |-> FALSE, url |-> Uc(SharePathId(url)), file_id |-> SharePathId(url)]
       ELSE IF QueryId(url) # None
            THEN [bad |-> FALSE, url |-> url, file_id |-> QueryId(url)]
            ELSE [bad |-> TRUE, url |-> url, file_id |-> file_id]
  ELSE IF HasLoomHost(url) /\ LoomShareId(url) # None
       THEN [bad |-> FALSE, url |-> LoomCdn(LoomShareId(url)), file_id |-> file_id]
       ELSE [bad |-> FALSE, url |-> url, file_id |-> file_id]
Classify(url, file_id) ==
  IF file_id = None /\ HasDriveHost(url)
  THEN IF SharePathId(url) # None
       THEN [bad |-> FALSE, url |-> Uc(SharePathId(url)), file_id |-> SharePathId(url)]
       ELSE IF QueryId(url) # None
            THEN [bad |-> FALSE, url |-> url, file_id |-> QueryId(url)]
            ELSE [bad |-> TRUE, url |-> url, file_id |-> file_id]
  ELSE IF HasLoomHost(url) /\ LoomShareId(url) # None
       THEN [bad |-> FALSE, url |-> LoomCdn(LoomShareId(url)), file_id |-> file_id]
       ELSE [bad |-> FALSE, url |-> url, file_id |-> file_id]

(***************************************************************************)
(* File names and extensions.                                              *)
(***************************************************************************)
\* a filename hint is its stem and its extension ("" when it has none)
NoHint == [given |-> FALSE, ext |-> ""]
Hint(ext) == [given |-> TRUE, ext |-> ext]
Hints == {NoHint, Hint(".mov")}
\* os.path.splitext(filename_hint)[1].lower(); None when there is no hint
HintExtension(hint) == IF hint.given THEN hint.ext ELSE None
\* "not file_extension": None and "" are both falsy
Falsy(ext) == ext = None \/ ext = ""

ContentTypes == {"video/mp4", "text/html"}

\* the extension chosen from the HEAD response's Content-Type
HeadExtension(file_extension, content_type) ==
  IF ~Falsy(file_extension) THEN file_extension
  ELSE IF content_type = "video/mp4" THEN ".mp4"
  ELSE IF content_type = "video/webm" THEN ".webm"
  ELSE IF content_type \in {"video/quicktime", "video/mov"} THEN ".mov"
  ELSE IF content_type = "video/x-msvideo" THEN ".avi"
  ELSE ".mp4"

\* the extension chosen from the GET response's Content-Type
GetExtension(file_extension, content_type) ==
  IF Falsy(file_extension) \/ file_extension = ".mp4"
  THEN IF content_type = "video/mp4" THEN ".mp4"
       ELSE IF content_type = "video/webm" THEN ".webm"
       ELSE IF content_type \in {"video/quicktime", "video/mov"} THEN ".mov"
       ELSE IF content_type = "video/x-msvideo" THEN ".avi"
       ELSE IF content_type = "application/octet-stream"
            THEN (IF Falsy(file_extension) THEN ".mp4" ELSE file_extension)
            ELSE file_extension
  ELSE file_extension

video_extensions == {".mp4", ".mov", ".avi", ".mkv", ".webm", ".flv", ".wmv", ".m4v"}

(***************************************************************************)
(* Bodies and files.  A body is the pattern of its leading bytes and its   *)
(* length; byte i of the body is pat[i], or 0 past the pattern.            *)
(***************************************************************************)
PatMP4 == <<0, 0, 0, 32, 102, 116, 121, 112, 105, 115, 111, 109>>
PatEBML == <<26, 69, 223, 163>>
PatAVI == <<82, 73, 70, 70, 0, 0, 0, 0, 65, 86, 73, 32>>
PatWAV == <<82, 73, 70, 70, 0, 0, 0, 0, 87, 65, 86, 69>>
PatFLV == <<70, 76, 86, 1>>
PatHTML == <<60, 33, 68, 79, 67, 84, 89, 80, 69, 32, 104, 116>>

ByteAt(pat, i) == IF i <= Len(pat) THEN pat[i] ELSE 0
\* bytes from..to (1-based, inclusive) of a body of length len
Bytes(pat, len, from, to) ==
  [i \in 1..(IF Min(to, len) >= from THEN Min(to, len) - from + 1 ELSE 0)
     |-> ByteAt(pat, from + i - 1)]

NoFile == [exists |-> FALSE, pat |-> <<>>, len |-> 0]
File(pat, len) == [exists |-> TRUE, pat |-> pat, len |-> len]

\* b'AVI' in first_bytes[8:12]
ContainsAVI(bs) ==
  \E i \in 1..(Len(bs) - 2) : bs[i] = 65 /\ bs[i + 1] = 86 /\ bs[i + 2] = 73

FfprobeOutcomes == {"ok", "failed", "timeout", "missing"}

\* the first_bytes argument: absent (None) or a byte string
NoBytes == [given |-> FALSE, bytes |-> <<>>]
Given(bs) == [given |-> TRUE, bytes |-> bs]

\* first_bytes is None or len(first_bytes) < 4
MustReadFile(first_bytes) == ~first_bytes.given \/ Len(first_bytes.bytes) < 4

\* the bytes the sniffer inspects: first_bytes, or the first 16 bytes of the
\* file when first_bytes is None or shorter than 4
SniffBytes(first_bytes, file) ==
  IF MustReadFile(first_bytes)
  THEN Bytes(file.pat, file.len, 1, SNIFF_READ_LEN)
  ELSE first_bytes.bytes

\* the ftyp tag looked for at the start of the file
SignatureMatches_FtypAtStart(bs) ==
  \/ SubSeq(bs, 1, 4) = <<102, 116, 121, 112>>
  \/ SubSeq(bs, 1, 4) = <<26, 69, 223, 163>>
  \/ SubSeq(bs, 1, 4) = <<82, 73, 70, 70>> /\ Len(bs) >= 12 /\ ContainsAVI(SubSeq(bs, 9, 12))
  \/ SubSeq(bs, 1, 3) = <<70, 76, 86>>

\* lines 162-179, for at least 4 bytes
SignatureMatches(bs) ==
  \/ Len(bs) >= 8 /\ SubSeq(bs, 5, 8) = <<102, 116, 121, 112>>
  \/ SubSeq(bs, 1, 4) = <<26, 69, 223, 163>>
  \/ SubSeq(bs, 1, 4) = <<82, 73, 70, 70>> /\ Len(bs) >= 12 /\ ContainsAVI(SubSeq(bs, 9, 12))
  \/ SubSeq(bs, 1, 3) = <<70, 76, 86>>

\* _is_valid_video_file(file_path, first_bytes), file_path having extension
\* ext and naming file; probe is what running ffprobe on it does
IsValidVideoFile(ext, first_bytes, file, probe) ==
  IF MustReadFile(first_bytes) /\ ~file.exists
  THEN FALSE  \* open() raises, caught by the outer except
  ELSE LET bs == SniffBytes(first_bytes, file) IN
       IF Len(bs) < 4 THEN FALSE
       ELSE IF SignatureMatches(bs) THEN TRUE
       ELSE IF ext \in video_extensions
            THEN IF ~file.exists THEN FALSE  \* os.path.getsize raises
                 ELSE IF file.len > MIN_PROBE_SIZE THEN probe = "ok" ELSE FALSE
            ELSE FALSE


(***************************************************************************)
(* What the remote server can answer.                                      *)
(***************************************************************************)
Patterns == {PatMP4, PatHTML}
ChunkLens == {5, CHUNK_SIZE}

NoUrl == Url("none", None, None, None)
\* links the page scraping accepts: they contain uc?export=download, and one
\* that starts with "http" is taken as it stands
Links == {Uc(id) : id \in Ids} \cup {UcConfirm(tok, id) : tok \in Tokens, id \in Ids}
         \cup {NoHost(id) : id \in Ids} \cup {Uc(OtherId)}

\* An interstitial page, as the scraping of lines 386-514 sees it:
\*   hidden  hidden_inputs.get('confirm') or hidden_inputs.get('t')
\*   uuid    hidden_inputs.get('uuid')
\*   link    download_url_found (Methods 1, 1b, 2), cleaned and made absolute
\*   regex   the first match of token_patterns in the page text
\* A link that carries confirm=<tok> is page text that token_patterns match.
\* The pages of the model carry a uuid field exactly with the token "x", and
\* a link to another resource or with the token "t" only without hidden fields.
Pages ==
  {p \in [hidden : Tokens \cup {None}, uuid : Uuids \cup {None},
          link : Links \cup {NoUrl}, regex : Tokens \cup {None}] :
     /\ p.uuid # None <=> p.hidden = "x"
     /\ p.hidden # None => p.regex = None
     /\ p.hidden = None => p.regex = (IF p.link.k = "ucc" THEN p.link.tok ELSE None)
     /\ (p.link.k = "ucc" /\ p.link.tok = "t") => p.hidden = None
     /\ p.hidden = "t" => p.link = NoUrl
     /\ p.link = Uc(OtherId) => p.hidden = None}
NoPage == [hidden |-> None, uuid |-> None, link |-> NoUrl, regex |-> None]

\* confirm_token after lines 492-514
ConfirmToken(p) == IF p.hidden # None THEN p.hidden ELSE p.regex

\* unsupported: the client refuses a URL it cannot send a request to
HeadOutcomes ==
  {[k |-> k, ct |-> "", clk |-> "absent", cl |-> 0] :
     k \in {"status", "timeout", "network", "unsupported"}}
  \cup {[k |-> "ok", ct |-> ct, clk |-> "absent", cl |-> 0] : ct \in ContentTypes}
  \cup {[k |-> "ok", ct |-> ct, clk |-> "bad", cl |-> 0] : ct \in ContentTypes}
  \cup {[k |-> "ok", ct |-> ct, clk |-> "num", cl |-> cl] :
          ct \in ContentTypes, cl \in {0, MaxSizeBytes, MaxSizeBytes + 1}}

ErrorStatuses == {401, 403, 404, 500}

(***************************************************************************)
(* Outcomes of an invocation.                                              *)
(***************************************************************************)
\* a size in MB is a fraction of BytesPerMB: mb whole MB and rest bytes more
NoSize == [mb |-> 0, rest |-> 0]
\* a size rounded down to whole MB
FileSizeMB_Whole(total_size) == [mb |-> total_size \div BytesPerMB, rest |-> 0]
\* line 663: file_size_mb = total_size / (1024 * 1024)
FileSizeMB(total_size) ==
  [mb |-> total_size \div BytesPerMB, rest |-> total_size % BytesPerMB]

NoResult == [ok |-> FALSE, status |-> 0, kind |-> "none", ext |-> None, size |-> NoSize]
Err(status, kind) == [ok |-> FALSE, status |-> status, kind |-> kind, ext |-> None, size |-> NoSize]
Success(ext, size) == [ok |-> TRUE, status |-> 200, kind |-> "success", ext |-> ext, size |-> size]

\* a classification without the branch for 403
StatusError_No403(status_code) ==
  IF status_code = 404 THEN Err(404, "not_found")
  ELSE IF status_code = 401 THEN Err(401, "auth_required")
  ELSE Err(400, "remote")
\* the except clauses of lines 680-719
StatusError(status_code) ==
  IF status_code = 404 THEN Err(404, "not_found")
  ELSE IF status_code = 403 THEN Err(403, "forbidden")
  ELSE IF status_code = 401 THEN Err(401, "auth_required")
  ELSE Err(400, "remote")
\* an exception that no clause catches and that leaves the function as it is
InternalError_Unhandled(cause) == Err(0, "unhandled")
\* except Exception as e: raise HTTPException(status_code=500, ...)
InternalError(cause) == Err(500, "internal")
TransportError(k) ==
  IF k = "timeout" THEN Err(408, "timeout")
  ELSE IF k = "network" THEN Err(503, "network")
  ELSE InternalError(k)


(***************************************************************************)
(* State.                                                                  *)
(***************************************************************************)
VARIABLES
  stack,          \* the active invocations of download_video_from_url, outermost first
  tried_urls,     \* the set shared by all invocations of one acquisition
  filename_hint,  \* the caller's filename hint
  disk,           \* the files <output_path stem><ext>, by extension
  attempts,       \* history: the invocations that reached the network, in order
  last,           \* history: the transfer attempt that ended in the latest step, if any
  result,         \* what the top-level call returned or raised
  pages_sent,     \* how many interstitial pages the server has answered with
  sniff,          \* an application of _is_valid_video_file on its own
  conc,           \* two acquisitions that run interleaved, and the sets they hold
  handler,        \* a run of the /analyze-video-url handler around an acquisition
  naming          \* one attempt's choice of the output file's extension

vars == <<stack, tried_urls, filename_hint, disk, attempts, last, result, pages_sent, sniff,
          conc, handler, naming>>

OutExts == {".mp4", ".mov"}
\* The files of the output directory: which of them exist.  The program reads
\* only the file it is writing, which holds the bytes written of the body
\* of the attempt that opened it.
Absent == FALSE
Present == TRUE
\* the file as _is_valid_video_file reads it
Content(f, d) == [exists |-> d[f.final_ext], pat |-> f.pat, len |-> f.written]
InitialUrls == {Share("A"), Uc("A"), Folder, LoomShare("L"), Direct, NoScheme}

\* an invocation: its parameters, its locals and where it stands
\*   pc: entry (before line 229), head (before the HEAD of line 313), get (before
\*   the GET of line 352), page (in lines 516-613), stream (in the loop of line 642)
\*   calls: the continuations its page has called so far
Frame(url, file_id, is_retry, retry_count) ==
  [url |-> url, file_id |-> file_id, is_retry |-> is_retry, retry_count |-> retry_count,
   pc |-> "entry", req |-> NoUrl, file_extension |-> None,
   page |-> NoPage, stage |-> 0, calls |-> 0,
   final_ext |-> None, pat |-> <<>>, total_size |-> 0, first_bytes |-> <<>>,
   first_chunk_received |-> FALSE, nchunks |-> 0,
   head |-> "none", head_cl |-> -1, get_issued |-> FALSE, get_over |-> FALSE,
   written |-> 0, aid |-> 0, verdict |-> "none",
   error_status |-> 0, transport |-> "none", unexpected |-> "none"]

\* head: how the probe ended the attempt, if it did; head_cl: the
\* content-length above the ceiling that the probe declared, or -1;
\* error_status: the error status the GET was answered with, or 0;
\* transport: the transport failure that ended the attempt, if one did;
\* unexpected: the other unexpected exception that ended it, if one did
NoLast == [n |-> 0, head |-> "none", head_cl |-> -1, get_issued |-> FALSE,
           get_over |-> FALSE, total_size |-> 0, written |-> 0, kind |-> "none",
           status |-> 0, opened |-> FALSE, file_exists |-> FALSE,
           verdict |-> "none", pat |-> <<>>, error_status |-> 0, transport |-> "none",
           unexpected |-> "none"]
\* an acquisition of the interleaved pair, before its call; tried_urls is the
\* set object its invocation holds (NoSet for None), mine the URLs its own
\* invocations have added, calls the continuations it has called
NoSet == 0
Acquisitions == {1, 2}
Idle == [pc |-> "idle", url |-> NoUrl, retry_count |-> 0, tried_urls |-> NoSet,
         mine |-> {}, calls |-> 0, outcome |-> "none"]
NoConc == [heap |-> [o \in Acquisitions |-> {}], nalloc |-> 0,
           acq |-> [a \in Acquisitions |-> Idle]]
\* the handler before the request: temp_dir says whether the directory of
\* line 865 exists, created whether it was ever made, temp_video_path is the
\* extension of the path the acquisition returned, left the files that the
\* acquisition left in the directory
\* models: what generate_content does for each model of model_names, in
\* order; idx: the model tried next; text: the kind of response text;
\* analysis: what analyze_with_gemini returned; failure: what it raised
Payload(is_interview, rating, list) ==
  [is_interview |-> is_interview, rating |-> rating, communication_rating |-> rating,
   technical_knowledge_rating |-> rating, key_questions |-> list,
   technical_strengths |-> list, technical_weaknesses |-> list,
   follow_up_questions |-> list]
NoAnalysis == Payload(FALSE, -1, <<>>)
NoHandler == [pc |-> "start", temp_dir |-> FALSE, created |-> FALSE,
              temp_video_path |-> None, left |-> {}, status |-> 0,
              models |-> <<>>, idx |-> 0, text |-> "none", analysis |-> NoAnalysis,
              failure |-> "none"]
\* the extension of one attempt before the hint is looked at
NoNaming == [pc |-> "idle", hint |-> NoHint, head |-> "none", head_ct |-> "none",
             get_ct |-> "none", file_extension |-> None]
NoSniff == [ext |-> None, first_bytes |-> NoBytes, file |-> NoFile, probe |-> "ok",
            verdict |-> "idle"]

Init ==
  /\ \E url \in InitialUrls :
       stack = <<Frame(url, None, FALSE, 0)>>
  /\ filename_hint \in Hints
  /\ tried_urls = {}
  /\ disk = [e \in OutExts |-> Absent]
  /\ attempts = <<>>
  /\ last = NoLast
  /\ result = NoResult
  /\ pages_sent = 0
  /\ sniff = NoSniff
  /\ conc = NoConc
  /\ handler = NoHandler
  /\ naming = NoNaming

Running == stack # <<>>
Top == stack[Len(stack)]
SetTop(f) == [stack EXCEPT ![Len(stack)] = f]
Front(s) == SubSeq(s, 1, Len(s) - 1)

\* the stage at which the caller goes on after "except HTTPException: pass"
AfterFailure(stage) == stage + 1

\* the errors raised as HTTPException inside the try block of lines 249-678
RaisedInBody == {"malformed", "bad_drive_url", "size_declared", "size_exceeded", "invalid",
                 "exhausted", "exhausted_retries"}
\* an HTTPException that falls into the clause for unexpected errors
Reraise_AsInternal(o) == Err(500, "internal")
\* except HTTPException: raise
Reraise(o) == o
\* an invocation whose outcome never reaches its caller
Leaves_Nothing(o) == NoResult
\* how an outcome leaves the invocation's try statement
Leaves(o) == IF o.kind \in RaisedInBody THEN Reraise(o) ELSE o

\* a failure that no caller catches
Finish_Propagates(o) ==
  /\ stack' = <<>>
  /\ result' = o
\* The running invocation returns or raises o.  A success is returned by every
\* caller in turn (return await ...); a failure is swallowed by the caller, which
\* goes on with its next method; the outermost invocation hands o to its caller.
Finish(o) ==
  IF o.ok \/ Len(stack) = 1
  THEN /\ stack' = <<>>
       /\ result' = Leaves(o)
  ELSE /\ stack' = [Front(stack) EXCEPT ![Len(stack) - 1].stage = AfterFailure(@)]
       /\ result' = result

\* the record of a transfer attempt that ends with outcome o on disk d
Summary(f, o, d) ==
  [n |-> f.aid, head |-> f.head, head_cl |-> f.head_cl,
   get_issued |-> f.get_issued, get_over |-> f.get_over,
   total_size |-> f.total_size, written |-> f.written,
   kind |-> o.kind, status |-> o.status,
   opened |-> f.final_ext # None,
   file_exists |-> IF f.final_ext = None THEN FALSE ELSE d[f.final_ext],
   verdict |-> f.verdict, pat |-> f.pat,
   error_status |-> f.error_status, transport |-> f.transport,
   unexpected |-> f.unexpected]

\* a transfer attempt ends
FinishAttempt(f, o, d) ==
  /\ Finish(o)
  /\ last' = Summary(f, o, d)
  /\ disk' = d

(***************************************************************************)
(* Lines 229-300: the cap, the duplicate check, the syntactic check and    *)
(* the classifier.  No request has been issued yet.                        *)
(***************************************************************************)
\* a syntactic check applied to every invocation
MustValidate_Always(is_retry) == TRUE
\* if not is_retry:
MustValidate(is_retry) == ~is_retry

Enter ==
  /\ Running /\ Top.pc = "entry"
  /\ LET f == Top IN
       IF f.retry_count >= MAX_RETRIES
       THEN /\ Finish(Err(400, "cap"))
            /\ UNCHANGED tried_urls
       ELSE IF f.url \in tried_urls
       THEN /\ Finish(Err(400, "duplicate"))
            /\ UNCHANGED tried_urls
       ELSE /\ tried_urls' = tried_urls \cup {f.url}
            /\ IF MustValidate(f.is_retry) /\ ~HasSchemeAndHost(f.url)
               THEN Finish(Err(400, "malformed"))
               ELSE LET c == Classify(f.url, f.file_id) IN
                      IF c.bad
                      THEN Finish(Err(400, "bad_drive_url"))
                      ELSE /\ stack' = SetTop([f EXCEPT !.req = c.url,
                                                        !.file_id = c.file_id,
                                                        !.file_extension = HintExtension(filename_hint),
                                                        !.pc = "head"])
                           /\ UNCHANGED result
  /\ last' = NoLast
  /\ UNCHANGED <<filename_hint, disk, attempts, pages_sent, sniff, conc, handler, naming>>

(***************************************************************************)
(* Lines 310-349: the HEAD probe.                                          *)
(***************************************************************************)
\* the probe's outcomes that the inner except clause of line 346 catches
ProbeCaught(h) == h.k = "status"

\* the size in MB rounded down before it is compared
DeclaredTooLarge_FloorDiv(content_length) ==
  (content_length \div BytesPerMB) > MAX_VIDEO_SIZE_MB
\* file_size_mb = int(content_length) / (1024 * 1024); file_size_mb > max_size_mb
DeclaredTooLarge(content_length) == content_length > MAX_VIDEO_SIZE_MB * BytesPerMB

HeadRequest ==
  /\ Running /\ Top.pc = "head"
  /\ attempts' = Append(attempts, [req |-> Top.req, retry_count |-> Top.retry_count])
  /\ \E h \in {o \in HeadOutcomes : HasSchemeAndHost(Top.req) <=> o.k # "unsupported"} :
       LET over == h.k = "ok" /\ h.clk = "num" /\ DeclaredTooLarge(h.cl)
           f == [Top EXCEPT !.aid = Len(attempts) + 1,
                            !.head_cl = IF h.k = "ok" /\ h.clk = "num" /\ h.cl > MaxSizeBytes
                                        THEN h.cl ELSE -1]
           \* the attempt as it ends in the probe
           e == [f EXCEPT !.head = h.k]
       IN
       IF ProbeCaught(h)
       THEN \* except httpx.HTTPStatusError: file_extension = file_extension or ".mp4"
            /\ stack' = SetTop([f EXCEPT !.file_extension =
                                   IF Falsy(f.file_extension) THEN ".mp4" ELSE f.file_extension,
                                         !.pc = "get"])
            /\ UNCHANGED <<result, last, disk>>
       ELSE IF h.k # "ok"
       THEN FinishAttempt([e EXCEPT !.transport = h.k], TransportError(h.k), disk)
       ELSE IF h.clk = "bad"
       THEN \* int(content_length) raises ValueError
            FinishAttempt([e EXCEPT !.unexpected = "bad_content_length"],
                          InternalError("bad_content_length"), disk)
       ELSE IF over
       THEN FinishAttempt(e, Err(400, "size_declared"), disk)
       ELSE /\ stack' = SetTop([f EXCEPT !.file_extension = HeadExtension(f.file_extension, h.ct),
                                         !.pc = "get"])
            /\ UNCHANGED <<result, last, disk>>
  /\ UNCHANGED <<tried_urls, filename_hint, pages_sent, sniff, conc, handler, naming>>

(***************************************************************************)
(* Lines 352-372 and 615-641: the GET request, up to the interstitial page *)
(* being read or the output file being opened.                             *)
(***************************************************************************)
\* os.path.splitext(output_path)[0] + file_extension: the caller's
\* output_path has no extension, so the file is named by file_extension
FinalExt(file_extension) == file_extension

GetRequest ==
  /\ Running /\ Top.pc = "get"
  /\ LET f == [Top EXCEPT !.get_issued = TRUE] IN
       \/ /\ \E sc \in ErrorStatuses :
               FinishAttempt([f EXCEPT !.error_status = sc], StatusError(sc), disk)
          /\ UNCHANGED pages_sent
       \/ /\ \E k \in {"timeout", "network"} :
               FinishAttempt([f EXCEPT !.transport = k], TransportError(k), disk)
          /\ UNCHANGED pages_sent
       \/ \* an interstitial page: a resource id is known and the type is text/html
          /\ f.file_id # None
          /\ pages_sent < MaxPages
          /\ \E p \in Pages :
               /\ stack' = SetTop([f EXCEPT !.page = p, !.stage = 1, !.pc = "page"])
               /\ pages_sent' = pages_sent + 1
               /\ UNCHANGED <<result, last, disk>>
       \/ \* text/html whose body does not look like HTML: the body has been
          \* consumed, the file is opened and aiter_bytes raises StreamConsumed
          /\ f.file_id # None
          /\ LET ext == FinalExt(GetExtension(f.file_extension, "text/html"))
                 g == [f EXCEPT !.final_ext = ext, !.unexpected = "stream_consumed"]
             IN FinishAttempt(g, InternalError("stream_consumed"),
                              [disk EXCEPT ![ext] = Present])
          /\ UNCHANGED pages_sent
       \/ \* a body to download
          \E ct \in ContentTypes, pat \in Patterns, over \in BOOLEAN :
            /\ ~(f.file_id # None /\ ct = "text/html")
            /\ LET ext == FinalExt(GetExtension(f.file_extension, ct)) IN
                 /\ stack' = SetTop([f EXCEPT !.final_ext = ext, !.pat = pat,
                                              !.get_over = over, !.pc = "stream"])
                 /\ disk' = [disk EXCEPT ![ext] = Present]
                 /\ UNCHANGED <<result, last, pages_sent>>
       \/ \* open(final_output_path, "wb") raises OSError: no file is created
          /\ FinishAttempt([f EXCEPT !.unexpected = "open_failed"],
                           InternalError("open_failed"), disk)
          /\ UNCHANGED pages_sent
  /\ UNCHANGED <<tried_urls, filename_hint, attempts, sniff, conc, handler, naming>>

(***************************************************************************)
(* Lines 641-661: one chunk of the body.                                   *)
(***************************************************************************)
\* a loop without the check of lines 650-659
ExceedsCeiling_Never(total_size) == FALSE
\* total_size > max_size_bytes
ExceedsCeiling(total_size) == total_size > MaxSizeBytes

\* a clean-up that leaves the file
Remove_Forgotten(d, ext) == d
\* os.remove(path)
Remove(d, ext) == [d EXCEPT ![ext] = Absent]

\* a stream that hands the body out as it arrives, in pieces of any length
FinalChunkSeen_Never(f) == FALSE
\* response.aiter_bytes(chunk_size=8192) cuts the body into chunks of exactly
\* chunk_size bytes and hands out what is left, if anything, as the last
\* chunk once the body has ended: a chunk shorter than chunk_size is the last
FinalChunkSeen(f) == f.total_size % CHUNK_SIZE # 0

Chunk ==
  /\ Running /\ Top.pc = "stream" /\ Top.nchunks < MaxChunks
  /\ ~FinalChunkSeen(Top)
  /\ \E n \in ChunkLens :
       /\ n < CHUNK_SIZE => ~Top.get_over
       /\ LET f == Top
              chunk_from == f.total_size + 1
              chunk_to == f.total_size + n
              fb == IF ~f.first_chunk_received
                    THEN f.first_bytes \o Bytes(f.pat, chunk_to, chunk_from,
                                                chunk_from + Min(FIRST_BYTES_LEN, n) - 1)
                    ELSE f.first_bytes
              g == [f EXCEPT !.first_bytes = fb, !.first_chunk_received = TRUE,
                             !.total_size = f.total_size + n, !.nchunks = f.nchunks + 1]
          IN
          IF ExceedsCeiling(g.total_size)
          THEN FinishAttempt(g, Err(400, "size_exceeded"), Remove(disk, f.final_ext))
          ELSE /\ stack' = SetTop([g EXCEPT !.written = f.written + n])
               /\ UNCHANGED disk
               /\ UNCHANGED <<result, last>>
  /\ UNCHANGED <<tried_urls, filename_hint, attempts, pages_sent, sniff, conc, handler, naming>>

(***************************************************************************)
(* Lines 663-678: the body ended; the file is validated.                   *)
(***************************************************************************)
StreamEnd ==
  /\ Running /\ Top.pc = "stream" /\ ~Top.get_over
  /\ \E probe \in FfprobeOutcomes :
       LET is_valid == IsValidVideoFile(Top.final_ext, Given(Top.first_bytes),
                                        Content(Top, disk), probe)
           f == [Top EXCEPT !.verdict = IF is_valid THEN "valid" ELSE "invalid"]
       IN
       IF ~is_valid
       THEN FinishAttempt(f, Err(400, "invalid"), Remove(disk, f.final_ext))
       ELSE FinishAttempt(f, Success(f.final_ext, FileSizeMB(f.total_size)), disk)
  /\ UNCHANGED <<tried_urls, filename_hint, attempts, pages_sent, sniff, conc, handler, naming>>

(***************************************************************************)
(* The body breaks off: a read timeout, a network error or a protocol      *)
(* error is raised inside the loop and handled by lines 702-719.           *)
(***************************************************************************)
StreamAbort ==
  /\ Running /\ Top.pc = "stream" /\ ~FinalChunkSeen(Top)
  /\ \E k \in {"timeout", "network", "protocol"} :
       FinishAttempt([Top EXCEPT !.transport = k], TransportError(k), disk)
  /\ UNCHANGED <<tried_urls, filename_hint, attempts, pages_sent, sniff, conc, handler, naming>>


(***************************************************************************)
(* Lines 516-613: the continuation candidates of an interstitial page, in  *)
(* the order the code tries them.  The stage is the next method to try:    *)
(*   1 the hidden-field URL     2 the download link    3 the token URL     *)
(*   4 the retry ceiling        5 the generic confirm=t URL   6 give up    *)
(***************************************************************************)
\* a last resort that every page may take
GenericAllowed_Always(retry_count) == TRUE
\* line 592: if retry_count == 0
GenericAllowed(retry_count) == retry_count = 0

\* a hidden-field URL that leaves the uuid out
WorkingUrl_WithoutUuid(f) == UserContent(f.file_id, ConfirmToken(f.page), None)
\* urlencode of id, export, authuser, confirm and, when the page has one, uuid
WorkingUrl(f) == UserContent(f.file_id, ConfirmToken(f.page), f.page.uuid)
TokenUrl(f) == UcConfirm(ConfirmToken(f.page), f.file_id)
GenericUrl(f) == UcConfirm("t", f.file_id)

\* a caller that calls whatever candidate it has
AlreadyTried_Never(u, tried) == FALSE
\* the callers' test "not in tried_urls" of lines 535, 551, 568 and 593
AlreadyTried(u, tried) == u \in tried

\* the download link tried before the hidden-field URL
Candidate_LinkFirst(f, stage, tried) ==
  LET u == IF stage = 2
           THEN (IF f.file_id # None /\ ConfirmToken(f.page) # None THEN WorkingUrl(f) ELSE NoUrl)
           ELSE IF stage = 1 THEN f.page.link
           ELSE IF stage = 3
           THEN (IF ConfirmToken(f.page) # None /\ ConfirmToken(f.page) \notin {"t", "yes"}
                 THEN TokenUrl(f) ELSE NoUrl)
           ELSE IF stage = 5
           THEN (IF f.retry_count = 0 THEN GenericUrl(f) ELSE NoUrl)
           ELSE NoUrl
  IN IF AlreadyTried(u, tried) THEN NoUrl ELSE u
\* the candidate of a stage, or NoUrl when the stage makes no call
Candidate(f, stage, tried) ==
  LET u == IF stage = 1
           THEN (IF f.file_id # None /\ ConfirmToken(f.page) # None THEN WorkingUrl(f) ELSE NoUrl)
           ELSE IF stage = 2 THEN f.page.link
           ELSE IF stage = 3
           THEN (IF ConfirmToken(f.page) # None /\ ConfirmToken(f.page) \notin {"t", "yes"}
                 THEN TokenUrl(f) ELSE NoUrl)
           ELSE IF stage = 5
           THEN (IF GenericAllowed(f.retry_count) THEN GenericUrl(f) ELSE NoUrl)
           ELSE NoUrl
  IN IF AlreadyTried(u, tried) THEN NoUrl ELSE u

\* retry_count >= MAX_RETRIES - 1
RetriesExhausted(f) == f.retry_count >= MAX_RETRIES - 1

\* no raise after the last method: the code below the page handling goes on
\* with the consumed response and fails there
Unconfirmed_FallsThrough(kind) == Err(500, "internal")
\* raise HTTPException(status_code=400, detail="Unable to download Google Drive
\* file ... requires manual confirmation ..."), of lines 586-589 and 610-613
Unconfirmed(kind) == Err(400, kind)

\* what the code does from a stage on: the first call it makes or error it raises
RECURSIVE Dispatch(_, _, _)
Dispatch(f, stage, tried) ==
  IF stage = 4 /\ RetriesExhausted(f)
  THEN [act |-> "raise", stage |-> stage, url |-> NoUrl, err |-> Unconfirmed("exhausted_retries")]
  ELSE IF stage >= 6
  THEN [act |-> "raise", stage |-> stage, url |-> NoUrl, err |-> Unconfirmed("exhausted")]
  ELSE IF Candidate(f, stage, tried) # NoUrl
  THEN [act |-> "call", stage |-> stage, url |-> Candidate(f, stage, tried), err |-> NoResult]
  ELSE Dispatch(f, stage + 1, tried)

\* the calls of a page are counted up to one more than its methods
CallsCounted == Cardinality({1, 2, 3, 5}) + 1
\* a continuation that is called with the count of its caller
NextRetryCount_Same(retry_count) == retry_count
\* the retry_count a continuation is called with
NextRetryCount(retry_count) == retry_count + 1

PageStep ==
  /\ Running /\ Top.pc = "page"
  /\ LET f == Top
         d == Dispatch(f, f.stage, tried_urls)
     IN IF d.act = "call"
        THEN /\ stack' = Append(SetTop([f EXCEPT !.stage = d.stage,
                                                 !.calls = Min(@ + 1, CallsCounted)]),
                                Frame(d.url, f.file_id, TRUE, NextRetryCount(f.retry_count)))
             /\ last' = NoLast
             /\ UNCHANGED <<result, disk>>
        ELSE FinishAttempt(f, d.err, disk)
  /\ UNCHANGED <<tried_urls, filename_hint, attempts, pages_sent, sniff, conc, handler, naming>>

(***************************************************************************)
(* _is_valid_video_file applied on its own to a file and a first_bytes     *)
(* argument.                                                               *)
(***************************************************************************)
SniffPatterns == {PatMP4, PatEBML, PatAVI, PatWAV, PatFLV, PatHTML}
SniffLens == {0, 3, 4, 8, 12, MIN_PROBE_SIZE, MIN_PROBE_SIZE + 1}
\* how many leading bytes of the file the caller passes as first_bytes
SniffPrefixLens == {0, 3, 5, 12}
SniffExts == {".mp4", ".txt"}

SniffInit ==
  /\ stack = <<>>
  /\ filename_hint = NoHint
  /\ tried_urls = {}
  /\ disk = [e \in OutExts |-> Absent]
  /\ attempts = <<>>
  /\ last = NoLast
  /\ result = NoResult
  /\ pages_sent = 0
  /\ conc = NoConc
  /\ handler = NoHandler
  /\ naming = NoNaming
  /\ \E ext \in SniffExts, probe \in FfprobeOutcomes,
        file \in {NoFile} \cup {File(pat, len) : pat \in SniffPatterns, len \in SniffLens},
        fb \in {NoBytes} \cup {Given(Bytes(pat, len, 1, n)) :
                                 pat \in SniffPatterns, len \in SniffLens, n \in SniffPrefixLens} :
       sniff = [ext |-> ext, first_bytes |-> fb, file |-> file, probe |-> probe,
                verdict |-> "pending"]

SniffApply ==
  /\ sniff.verdict = "pending"
  /\ sniff' = [sniff EXCEPT !.verdict =
                 IF IsValidVideoFile(sniff.ext, sniff.first_bytes, sniff.file, sniff.probe)
                 THEN "valid" ELSE "invalid"]
  /\ UNCHANGED <<stack, tried_urls, filename_hint, disk, attempts, last, result, pages_sent,
                 conc, handler, naming>>

SniffNext == SniffApply

SniffSpec == SniffInit /\ [][SniffNext]_vars

(***************************************************************************)
(* Two acquisitions started by two requests and interleaved at their       *)
(* network operations.  What is kept of an acquisition is what lines       *)
(* 210-248 keep of it: the URL and retry_count of its running invocation   *)
(* and the set object that tried_urls refers to.                           *)
(***************************************************************************)
ConcUrls == {Uc("A"), UcConfirm("x", "A"), UcConfirm("t", "A")}

\* one set object made when the function is defined and handed to every call
NewSet_SharedDefault(nalloc) == 1
\* tried_urls = set(): an object that did not exist before
NewSet(nalloc) == nalloc + 1

\* the running invocation of acquisition a raises: the outermost invocation
\* ends the acquisition, a continuation's error is swallowed by its caller
Raise(a, kind) ==
  LET q == conc.acq[a] IN
    IF q.retry_count = 0
    THEN [q EXCEPT !.pc = "done", !.outcome = kind]
    ELSE [q EXCEPT !.pc = "page", !.retry_count = @ - 1]

\* lines 864-881: analyze_video_url calls download_video_from_url(url,
\* temp_video_base_path, request.filename)
Call(a) ==
  /\ conc.acq[a].pc = "idle"
  /\ \E url \in ConcUrls :
       conc' = [conc EXCEPT !.acq[a] = [Idle EXCEPT !.pc = "entry", !.url = url]]
  /\ UNCHANGED <<stack, tried_urls, filename_hint, disk, attempts, last, result, pages_sent,
                 sniff, handler, naming>>

\* lines 229-248
Prologue(a) ==
  /\ conc.acq[a].pc = "entry"
  /\ LET q == conc.acq[a]
         obj == IF q.tried_urls = NoSet THEN NewSet(conc.nalloc) ELSE q.tried_urls
         set == IF obj > conc.nalloc THEN {} ELSE conc.heap[obj]
         held == [conc EXCEPT !.heap[obj] = set,
                              !.nalloc = IF obj > @ THEN obj ELSE @]
     IN IF q.retry_count >= MAX_RETRIES
        THEN conc' = [held EXCEPT !.acq[a] = Raise(a, "cap")]
        ELSE IF q.url \in set
        THEN conc' = [held EXCEPT !.acq[a] = Raise(a, "duplicate")]
        ELSE conc' = [held EXCEPT !.heap[obj] = set \cup {q.url},
                                  !.acq[a] = [q EXCEPT !.pc = "io", !.tried_urls = obj,
                                                       !.mine = @ \cup {q.url}]]
  /\ UNCHANGED <<stack, tried_urls, filename_hint, disk, attempts, last, result, pages_sent,
                 sniff, handler, naming>>

\* lines 310-372 and 634-719: the requests of the invocation are answered
Answer(a) ==
  /\ conc.acq[a].pc = "io"
  /\ \/ conc' = [conc EXCEPT !.acq[a] = [@ EXCEPT !.pc = "done", !.outcome = "success"]]
     \/ conc' = [conc EXCEPT !.acq[a] = Raise(a, "failed")]
     \/ conc' = [conc EXCEPT !.acq[a] = [@ EXCEPT !.pc = "page"]]
  /\ UNCHANGED <<stack, tried_urls, filename_hint, disk, attempts, last, result, pages_sent,
                 sniff, handler, naming>>

\* lines 516-613: a candidate that is not in tried_urls is called with
\* retry_count + 1 and tried_urls=tried_urls, or the invocation gives up
PageCall(a) ==
  /\ conc.acq[a].pc = "page"
  /\ LET q == conc.acq[a] IN
       \/ \E u \in ConcUrls :
            /\ ~AlreadyTried(u, conc.heap[q.tried_urls])
            /\ conc' = [conc EXCEPT !.acq[a] = [q EXCEPT !.pc = "entry", !.url = u,
                                                        !.retry_count = NextRetryCount(@),
                                                        !.calls = @ + 1]]
       \/ conc' = [conc EXCEPT !.acq[a] = Raise(a, "exhausted")]
  /\ UNCHANGED <<stack, tried_urls, filename_hint, disk, attempts, last, result, pages_sent,
                 sniff, handler, naming>>

ConcInit ==
  /\ stack = <<>>
  /\ filename_hint = NoHint
  /\ tried_urls = {}
  /\ disk = [e \in OutExts |-> Absent]
  /\ attempts = <<>>
  /\ last = NoLast
  /\ result = NoResult
  /\ pages_sent = 0
  /\ sniff = NoSniff
  /\ conc = NoConc
  /\ handler = NoHandler
  /\ naming = NoNaming

ConcNext ==
  \E a \in Acquisitions :
    \/ Call(a)
    \/ Prologue(a)
    \/ Answer(a)
    \/ PageCall(a)

ConcSpec == ConcInit /\ [][ConcNext]_vars

(***************************************************************************)
(* Lines 838-961: the /analyze-video-url handler.  The acquisition it calls *)
(* is taken by its outcome: what download_video_from_url returned or       *)
(* raised and the files downloaded_video<ext> it left in the directory.    *)
(***************************************************************************)
\* the extensions a file of the directory can carry; a hint such as
\* notes.txt gives the output file an extension the handler does not allow
HandlerExts == OutExts \cup {".txt"}
\* allowed_extensions of line 885, as far as HandlerExts goes
allowed_extensions == {".mp4", ".mov"}
AcquisitionOutcomes ==
  {Success(ext, FileSizeMB(size)) : ext \in HandlerExts, size \in {5, CHUNK_SIZE}}
  \cup {Err(400, "invalid"), Err(404, "not_found"), Err(408, "timeout"), Err(500, "internal")}

\* a clean-up that removes the returned file only
RemoveRemaining_Nothing(d) == d
\* for file in os.listdir(temp_dir): os.remove(os.path.join(temp_dir, file))
RemoveRemaining(d) == [e \in DOMAIN d |-> Absent]
\* os.rmdir(temp_dir) removes an empty directory; on a directory with files
\* it raises OSError, which is logged
Rmdir(d) == \E e \in DOMAIN d : d[e] = Present

\* the handler ends its try block with a response (status 200) or an error
Finally(h, status) == [h EXCEPT !.pc = "finally", !.status = status]

\* lines 845-867: the request is validated and the directory is created
HandlerStart ==
  /\ handler.pc = "start"
  /\ \/ \E status \in {400, 500} : handler' = Finally(handler, status)
     \/ handler' = [handler EXCEPT !.pc = "download", !.temp_dir = TRUE, !.created = TRUE]
  /\ UNCHANGED <<stack, tried_urls, filename_hint, disk, attempts, last, result, pages_sent,
                 sniff, conc, naming>>

\* lines 869-881: the acquisition returns or raises
HandlerDownload ==
  /\ handler.pc = "download"
  /\ \E o \in AcquisitionOutcomes, d \in [HandlerExts -> BOOLEAN] :
       /\ o.ok => d[o.ext] = Present
       /\ result' = o
       /\ disk' = d
       /\ LET h == [handler EXCEPT !.left = {e \in HandlerExts : d[e] = Present}] IN
            handler' = IF o.ok
                       THEN [h EXCEPT !.pc = "check", !.temp_video_path = o.ext]
                       ELSE Finally(h, o.status)
  /\ UNCHANGED <<stack, tried_urls, filename_hint, attempts, last, pages_sent, sniff, conc, naming>>

\* lines 883-891: the extension of the returned path is checked
HandlerCheck ==
  /\ handler.pc = "check"
  /\ handler' = IF handler.temp_video_path \notin allowed_extensions
                THEN Finally(handler, 400)
                ELSE [handler EXCEPT !.pc = "analyse"]
  /\ UNCHANGED <<stack, tried_urls, filename_hint, disk, attempts, last, result, pages_sent,
                 sniff, conc, naming>>

\* lines 893-906 and main_service.py 481-505: process_video is called; the
\* audio extraction or the transcription raises, or the transcript goes to
\* analyze_with_gemini, whose model_names holds 1 to MaxModels models
ModelOutcomes == {"ok", "not_found", "error"}
ResponseTexts == {"json", "not_json", "unreadable"}
HandlerAnalyse ==
  /\ handler.pc = "analyse"
  /\ \/ handler' = Finally([handler EXCEPT !.failure = "transcription"], 500)
     \/ \E n \in 1..MaxModels : \E ms \in [1..n -> ModelOutcomes], text \in ResponseTexts :
          handler' = [handler EXCEPT !.pc = "gemini", !.models = ms, !.idx = 1,
                                     !.text = text]
  /\ UNCHANGED <<stack, tried_urls, filename_hint, disk, attempts, last, result, pages_sent,
                 sniff, conc, naming>>

\* main_service.py 407-435: one turn of the loop over model_names.  A model
\* that is not found is skipped; another error is raised when the model is the
\* last of the list; a loop that ends without a response raises.
GeminiTry ==
  /\ handler.pc = "gemini"
  /\ LET m == handler.models[handler.idx]
         is_last == handler.idx = Len(handler.models)
     IN handler' =
          IF m = "ok" THEN [handler EXCEPT !.pc = "parse"]
          ELSE IF m = "error" /\ is_last
          THEN Finally([handler EXCEPT !.failure = "model_error"], 500)
          ELSE IF is_last
          THEN Finally([handler EXCEPT !.failure = "no_response"], 500)
          ELSE [handler EXCEPT !.idx = @ + 1]
  /\ UNCHANGED <<stack, tried_urls, filename_hint, disk, attempts, last, result, pages_sent,
                 sniff, conc, naming>>

\* the payload of lines 465-477
DefaultPayload == Payload(TRUE, 5, <<>>)
\* what json.loads gives for the response text of the model
ParsedPayload == Payload(TRUE, 8, <<"item">>)
\* a parse failure that is raised like any other failure
ParseResponse_Raises(text) ==
  IF text = "json" THEN [raised |-> FALSE, analysis |-> ParsedPayload]
  ELSE [raised |-> TRUE, analysis |-> NoAnalysis]
\* main_service.py 446-479: response.text is read (it raises when the response
\* holds no text), json.loads parses it, JSONDecodeError gives the default
ParseResponse(text) ==
  IF text = "json" THEN [raised |-> FALSE, analysis |-> ParsedPayload]
  ELSE IF text = "not_json" THEN [raised |-> FALSE, analysis |-> DefaultPayload]
  ELSE [raised |-> TRUE, analysis |-> NoAnalysis]

\* main_service.py 446-479 and 507-516, lines 908-934: the response is parsed,
\* process_video returns and the handler builds its response
GeminiParse ==
  /\ handler.pc = "parse"
  /\ LET r == ParseResponse(handler.text) IN
       handler' = IF r.raised
                  THEN Finally([handler EXCEPT !.failure = "response"], 500)
                  ELSE Finally([handler EXCEPT !.analysis = r.analysis], 200)
  /\ UNCHANGED <<stack, tried_urls, filename_hint, disk, attempts, last, result, pages_sent,
                 sniff, conc, naming>>

\* lines 941-961: the finally clause
HandlerFinally ==
  /\ handler.pc = "finally"
  /\ LET d1 == IF handler.temp_video_path # None /\ disk[handler.temp_video_path] = Present
               THEN Remove(disk, handler.temp_video_path) ELSE disk
         d2 == IF handler.temp_dir THEN RemoveRemaining(d1) ELSE d1
     IN /\ disk' = d2
        /\ handler' = [handler EXCEPT !.pc = "finished",
                                      !.temp_dir = IF @ THEN Rmdir(d2) ELSE @]
  /\ UNCHANGED <<stack, tried_urls, filename_hint, attempts, last, result, pages_sent, sniff,
                 conc, naming>>

HandlerInit ==
  /\ stack = <<>>
  /\ filename_hint = NoHint
  /\ tried_urls = {}
  /\ disk = [e \in HandlerExts |-> Absent]
  /\ attempts = <<>>
  /\ last = NoLast
  /\ result = NoResult
  /\ pages_sent = 0
  /\ sniff = NoSniff
  /\ conc = NoConc
  /\ handler = NoHandler
  /\ naming = NoNaming

HandlerNext ==
  \/ HandlerStart
  \/ HandlerDownload
  \/ HandlerCheck
  \/ HandlerAnalyse
  \/ GeminiTry
  \/ GeminiParse
  \/ HandlerFinally

HandlerSpec == HandlerInit /\ [][HandlerNext]_vars

(***************************************************************************)
(* Lines 297-300, 331-349 and 615-626: the extension of the output file of *)
(* one attempt, from the hint, the HEAD response and the GET response.     *)
(***************************************************************************)
\* no hint, "video", "talk.mov", "talk.mp4", "notes.txt"
NamingHints == {NoHint, Hint(""), Hint(".mov"), Hint(".mp4"), Hint(".txt")}
NamingContentTypes == {"video/mp4", "video/webm", "video/quicktime", "video/mov",
                       "video/x-msvideo", "application/octet-stream", "text/html"}

NamingInit ==
  /\ stack = <<>>
  /\ filename_hint = NoHint
  /\ tried_urls = {}
  /\ disk = [e \in OutExts |-> Absent]
  /\ attempts = <<>>
  /\ last = NoLast
  /\ result = NoResult
  /\ pages_sent = 0
  /\ sniff = NoSniff
  /\ conc = NoConc
  /\ handler = NoHandler
  /\ \E hint \in NamingHints : naming = [NoNaming EXCEPT !.hint = hint, !.pc = "hint"]

\* lines 297-300
NamingHint ==
  /\ naming.pc = "hint"
  /\ naming' = [naming EXCEPT !.file_extension = HintExtension(naming.hint), !.pc = "head"]
  /\ UNCHANGED <<stack, tried_urls, filename_hint, disk, attempts, last, result, pages_sent,
                 sniff, conc, handler>>

\* lines 331-349: the HEAD response declares a content type, or the probe
\* fails with a status error and the extension defaults to .mp4
NamingHead ==
  /\ naming.pc = "head"
  /\ \/ \E ct \in NamingContentTypes :
          naming' = [naming EXCEPT !.head = "ok", !.head_ct = ct, !.pc = "get",
                                   !.file_extension = HeadExtension(@, ct)]
     \/ naming' = [naming EXCEPT !.head = "status", !.pc = "get",
                                  !.file_extension = IF Falsy(@) THEN ".mp4" ELSE @]
  /\ UNCHANGED <<stack, tried_urls, filename_hint, disk, attempts, last, result, pages_sent,
                 sniff, conc, handler>>

\* lines 615-626
NamingGet ==
  /\ naming.pc = "get"
  /\ \E ct \in NamingContentTypes :
       naming' = [naming EXCEPT !.get_ct = ct, !.pc = "done",
                                !.file_extension = GetExtension(@, ct)]
  /\ UNCHANGED <<stack, tried_urls, filename_hint, disk, attempts, last, result, pages_sent,
                 sniff, conc, handler>>

NamingNext ==
  \/ NamingHint
  \/ NamingHead
  \/ NamingGet

NamingSpec == NamingInit /\ [][NamingNext]_vars

Next ==
  \/ Enter
  \/ HeadRequest
  \/ GetRequest
  \/ Chunk
  \/ StreamEnd
  \/ StreamAbort
  \/ PageStep

Spec == Init /\ [][Next]_vars

\* every step of an invocation is eventually taken: the event loop runs the
\* coroutine, and every network operation completes or times out
FairSpec == Spec /\ WF_vars(Next)

TypeOK ==
  /\ Len(stack) <= MAX_RETRIES + 1
  /\ \A i \in 1..Len(stack) : stack[i].retry_count = i - 1
  /\ \A i \in 1..Len(stack) : i < Len(stack) => stack[i].pc = "page"

(***************************************************************************)
(* Properties.                                                             *)
(***************************************************************************)
Done == result # NoResult
Failed == Done /\ ~result.ok
\* a transfer attempt ended in the latest step
AttemptEnded == last.kind # "none"

\* the bytes that a size in MB stands for
BytesOf(size) == size.mb * BytesPerMB + size.rest

\* C1: one acquisition makes at most 3 transfer attempts in total (at most 3
\* invocations reach the network), whatever the server answers.
C1_AtMostThreeAttempts == Len(attempts) <= MAX_RETRIES

C3_NoUrlDispatchedTwice ==
  \A i, j \in 1..Len(attempts) : i # j => attempts[i].req # attempts[j].req

\* C4: whenever a HEAD or GET request is issued for a URL, or about to be
\* issued, that exact URL is already a member of the attempted-URL set.
C4_AddedBeforeSent ==
  \A i \in 1..Len(stack) :
    stack[i].pc \in {"head", "get", "stream", "page"} => stack[i].req \in tried_urls

\* C5: across the transfer attempts of one acquisition, in the order they
\* execute, the attempt counter of each attempt is strictly greater than that
\* of the attempt before it, and the attempted-URL set never loses an element.
C5_MonotonicAccounting ==
  /\ [](\A i \in 1..Len(attempts) :
          i > 1 => attempts[i].retry_count > attempts[i - 1].retry_count)
  /\ [][tried_urls \subseteq tried_urls']_vars

\* C6 (as stated): an attempt in which the server declares a content-length
\* above the ceiling, in the probe or in the GET response, and that is not cut
\* short by a transport failure, fails with a size-exceeded error before any
\* body byte is written to disk and without transferring the body.
C6_DeclaredOverAnywhere ==
  (/\ AttemptEnded
   /\ last.head_cl > MaxSizeBytes \/ last.get_over
   /\ last.kind \notin {"timeout", "network", "internal"})
    => /\ last.kind \in {"size_declared", "size_exceeded"}
       /\ last.total_size = 0
       /\ last.written = 0

\* C6 (amended): an attempt whose HEAD probe succeeds and declares a
\* content-length above the ceiling fails with the size-exceeded error (400)
\* before the GET is issued, no output file opened and no byte written.
C6_DeclaredOverInProbe ==
  (AttemptEnded /\ last.head_cl > MaxSizeBytes)
    => /\ last.kind = "size_declared" /\ last.status = 400
       /\ ~last.get_issued
       /\ ~last.opened /\ last.written = 0
C6_Witness == AttemptEnded /\ last.head_cl > MaxSizeBytes /\ last.kind = "size_declared"

C8_ProbeFailureIsAdvisory ==
  (AttemptEnded /\ last.head \in {"status", "timeout", "network"}) => last.get_issued

\* C9: when download_video_from_url raises to its caller, no output file
\* created by any of its attempts remains on disk.
C9_NoFileLeftOnFailure == Failed => \A e \in OutExts : disk[e] = Absent

\* the signatures as the claim lists them, on the bytes the sniffer inspects
ClaimedSignature(bs) ==
  \/ Len(bs) >= 8 /\ <<bs[5], bs[6], bs[7], bs[8]>> = <<102, 116, 121, 112>>
  \/ Len(bs) >= 4 /\ <<bs[1], bs[2], bs[3], bs[4]>> = <<26, 69, 223, 163>>
  \/ /\ Len(bs) >= 12
     /\ <<bs[1], bs[2], bs[3], bs[4]>> = <<82, 73, 70, 70>>
     /\ \E i \in 9..10 : <<bs[i], bs[i + 1], bs[i + 2]>> = <<65, 86, 73>>
  \/ Len(bs) >= 3 /\ <<bs[1], bs[2], bs[3]>> = <<70, 76, 86>>
Inspected == SniffBytes(sniff.first_bytes, sniff.file)
Sniffed == sniff.verdict \in {"valid", "invalid"}
FallbackHolds ==
  /\ sniff.ext \in video_extensions
  /\ sniff.file.exists /\ sniff.file.len > 1024
  /\ sniff.probe = "ok"

\* C10 (as stated): the sniffer returns Valid whenever the leading bytes carry
\* one of the four signatures; without a signature it returns Valid only if the
\* extension is a video extension, the file is larger than 1024 bytes and the
\* external probe succeeds.
C10_SnifferAsStated ==
  Sniffed =>
    /\ ClaimedSignature(Inspected) => sniff.verdict = "valid"
    /\ (~ClaimedSignature(Inspected) /\ sniff.verdict = "valid") => FallbackHolds

\* C10 (amended): the same, for leading bytes of which there are at least 4;
\* with fewer than 4 bytes the sniffer returns Invalid.
C10_Sniffer ==
  Sniffed =>
    /\ (Len(Inspected) >= 4 /\ ClaimedSignature(Inspected)) => sniff.verdict = "valid"
    /\ Len(Inspected) < 4 => sniff.verdict = "invalid"
    /\ (~ClaimedSignature(Inspected) /\ sniff.verdict = "valid") => FallbackHolds
    /\ (~ClaimedSignature(Inspected) /\ sniff.probe # "ok") => sniff.verdict = "invalid"
C10_Witness ==
  /\ sniff.verdict = "valid"
  /\ Len(Inspected) >= 8
  /\ <<Inspected[5], Inspected[6], Inspected[7], Inspected[8]>> = <<102, 116, 121, 112>>

\* C11: whenever a transfer completes and the sniffer rejects the body, the
\* attempt ends with the invalid-payload error (400), the output file is gone
\* from disk when the error is raised, and the attempt does not return success.
C11_RejectedBodyRemoved ==
  (AttemptEnded /\ last.verdict = "invalid")
    => /\ last.kind = "invalid" /\ last.status = 400
       /\ last.opened /\ ~last.file_exists
       /\ ~result.ok
\* a page of HTML served for a URL that carries no resource id
C11_Witness ==
  /\ AttemptEnded /\ last.verdict = "invalid" /\ last.pat = PatHTML
  /\ last.written > 0 /\ Direct \in tried_urls

\* C12: a first-attempt URL without scheme or host ("not-a-url") makes the
\* acquisition fail at once with the malformed-input error (400): no request
\* has been issued and no output file exists.  The syntactic check is not
\* applied to a continuation: a continuation URL without a host is not
\* rejected as malformed, its request is handed to the HTTP client.
C12_MalformedFailsBeforeNetwork ==
  /\ NoScheme \in tried_urls
       => /\ result = Err(400, "malformed") /\ stack = <<>>
          /\ attempts = <<>>
          /\ \A e \in OutExts : disk[e] = Absent
  /\ \A u \in tried_urls :
       ~HasSchemeAndHost(u) /\ u # NoScheme
         => \/ \E i \in 1..Len(attempts) : attempts[i].req = u /\ attempts[i].retry_count > 0
            \/ Running /\ Top.url = u /\ Top.pc = "head"
C12_Witness == NoScheme \in tried_urls /\ Failed /\ result.kind = "malformed"

\* C13: the Drive scenario end to end.  Started with the share link
\* https://drive.google.com/file/d/A/view, the first request goes to
\* https://drive.google.com/uc?export=download&id=A; when that answers an
\* interstitial page whose hidden inputs are confirm=x and uuid=u1, the second
\* request goes to https://drive.usercontent.google.com/download?id=A&export=
\* &authuser=0&confirm=x&uuid=u1; when that transfer completes with a body
\* that carries the ftyp signature and stays within the ceiling, the
\* acquisition returns success with the final path and the size counted from
\* the bytes received, after exactly two transfer attempts.
C13_DriveScenario ==
  /\ (Share("A") \in tried_urls /\ Len(attempts) >= 1)
       => attempts[1] = [req |-> Uc("A"), retry_count |-> 0]
  /\ (/\ Len(attempts) >= 2 /\ Running
      /\ stack[1].url = Share("A") /\ stack[1].pc = "page"
      /\ stack[1].page.hidden = "x" /\ stack[1].page.uuid = "u1")
       => attempts[2] = [req |-> UserContent("A", "x", "u1"), retry_count |-> 1]
  /\ (/\ AttemptEnded /\ last.n = 2 /\ Share("A") \in tried_urls
      /\ attempts[2].req = UserContent("A", "x", "u1")
      /\ last.verdict # "none" /\ last.pat = PatMP4 /\ last.total_size >= 8)
       => /\ stack = <<>> /\ result.ok
          /\ BytesOf(result.size) = last.total_size /\ last.total_size <= MaxSizeBytes
          /\ result.ext \in OutExts /\ disk[result.ext] = Present
          /\ Len(attempts) = 2
C13_Witness ==
  /\ Done /\ result.ok /\ Share("A") \in tried_urls
  /\ attempts = <<[req |-> Uc("A"), retry_count |-> 0],
                  [req |-> UserContent("A", "x", "u1"), retry_count |-> 1]>>
  /\ last.n = 2 /\ last.pat = PatMP4 /\ last.total_size = CHUNK_SIZE

\* the requests issued so far by the continuations that the invocation at
\* depth i has called from its page, oldest first
Continuations(i) ==
  SelectSeq([k \in 1..Len(attempts) |-> [n |-> k, at |-> attempts[k]]],
            LAMBDA a : a.n > stack[i].aid /\ a.at.retry_count = stack[i].retry_count + 1)
\* the place of a URL in the claimed order of a page's candidates
Priority(f, u) ==
  IF ConfirmToken(f.page) # None /\ u = UserContent(f.file_id, ConfirmToken(f.page), f.page.uuid)
  THEN 1
  ELSE IF u = f.page.link THEN 2
  ELSE IF ConfirmToken(f.page) # None /\ u = UcConfirm(ConfirmToken(f.page), f.file_id) THEN 3
  ELSE IF u = UcConfirm("t", f.file_id) THEN 4
  ELSE 0

\* C14: the candidates of one page are attempted in the order hidden-field URL
\* on drive.usercontent.google.com/download, download link of the page, legacy
\* confirm URL built from the token, generic confirm=t URL; with both a confirm
\* hidden input and a download link on the page, the hidden-field URL is
\* requested before the link.
C14_HiddenFieldFirst ==
  \A i \in 1..Len(stack) :
    stack[i].pc = "page" =>
      LET c == Continuations(i) IN
        /\ \A j \in 1..Len(c) : Priority(stack[i], c[j].at.req) > 0
        /\ \A j, k \in 1..Len(c) :
             j < k => Priority(stack[i], c[j].at.req) < Priority(stack[i], c[k].at.req)
C14_Witness ==
  /\ Running /\ stack[1].pc = "page"
  /\ stack[1].page.hidden # None /\ stack[1].page.link # NoUrl
  /\ Len(attempts) >= 3
  /\ attempts[2] = [req |-> UserContent(stack[1].file_id, stack[1].page.hidden, stack[1].page.uuid),
                    retry_count |-> 1]
  /\ attempts[3] = [req |-> stack[1].page.link, retry_count |-> 1]

\* the candidate URL that extraction step k leaves for the page of f: 1 the
\* hidden-field URL, 2 the download link found on the page, 3 the legacy URL
\* built from a token that is not a generic placeholder
Extracted(f, k) ==
  IF k = 1
  THEN (IF ConfirmToken(f.page) # None
        THEN UserContent(f.file_id, ConfirmToken(f.page), f.page.uuid) ELSE NoUrl)
  ELSE IF k = 2 THEN f.page.link
  ELSE IF k = 3 /\ ConfirmToken(f.page) \notin {None, "t", "yes"}
  THEN UcConfirm(ConfirmToken(f.page), f.file_id)
  ELSE NoUrl
\* the steps, from the next one to try on, whose candidate has not been attempted
Untried(f) ==
  {k \in f.stage..3 : Extracted(f, k) # NoUrl /\ Extracted(f, k) \notin tried_urls}
Lowest(S) == CHOOSE k \in S : \A j \in S : k <= j

\* C15: for one page, every candidate URL left by the extraction steps that is
\* not in the attempted-URL set is handed to a recursive continuation call, in
\* priority order, as long as the earlier candidates failed; a failure raised
\* by a candidate's continuation is swallowed and the caller goes on with its
\* next method.
C15_EveryCandidateTried ==
  [][/\ (Running /\ Top.pc = "page" /\ Untried(Top) # {})
          => /\ Len(stack') = Len(stack) + 1
             /\ stack'[Len(stack')].url = Extracted(Top, Lowest(Untried(Top)))
             /\ stack'[Len(stack')].is_retry
             /\ stack'[Len(stack')].retry_count = Top.retry_count + 1
             /\ stack'[Len(stack)].stage = Lowest(Untried(Top))
     /\ (Len(stack) >= 2 /\ Len(stack') < Len(stack) /\ ~result'.ok)
          => /\ Len(stack') = Len(stack) - 1
             /\ result' = NoResult
             /\ stack'[Len(stack')].pc = "page"
             /\ stack'[Len(stack')].stage = stack[Len(stack')].stage + 1
    ]_vars
\* two candidates of the first page have failed and the third is being tried
C15_Witness ==
  /\ Len(stack) = 2 /\ stack[1].stage = 3 /\ stack[2].pc = "get"
  /\ Len(attempts) >= 4
  /\ stack[1].page.link \in tried_urls

ConfirmationExhausted == {"exhausted", "exhausted_retries"}

\* C16 (as stated): when an attempt that received an interstitial page has
\* exhausted every extraction method, or reached the cap, the acquisition
\* fails terminally with the confirmation-exhausted error (400).
C16_ExhaustedEndsAcquisition ==
  (AttemptEnded /\ last.kind \in ConfirmationExhausted)
    => (Done /\ result = Err(400, last.kind))

\* C16 (amended): an invocation that received an interstitial page ends only
\* by returning the success of a continuation it called or by raising the
\* confirmation-exhausted error (400); raised by the initial attempt, that
\* error is the result of the acquisition; raised by a continuation, it is
\* swallowed by the caller, which goes on with its next method.
C16_ExhaustedPageRaises ==
  /\ []((AttemptEnded /\ last.kind \in ConfirmationExhausted)
          => /\ last.status = 400 /\ ~result.ok
             /\ last.n = 1 <=> (Done /\ result = Err(400, last.kind)))
  /\ [][\A i \in 1..Len(stack) :
          (stack[i].pc = "page" /\ Len(stack') < i)
            => \/ result'.ok
               \/ /\ i = Len(stack)
                  /\ last'.n = stack[i].aid /\ last'.kind \in ConfirmationExhausted
                  /\ last'.status = 400]_vars
\* the first attempt received a page, its continuations failed, the
\* acquisition ends with the error
C16_Witness ==
  /\ AttemptEnded /\ last.kind = "exhausted" /\ last.n = 1
  /\ Done /\ result = Err(400, "exhausted") /\ Len(attempts) >= 3

\* the terminal failures of a transfer attempt that the claim lists
TransferFailures ==
  {"size_declared", "size_exceeded", "invalid", "not_found", "forbidden", "auth_required",
   "remote", "timeout", "network"}

\* C17 (as stated): every terminal failure of a transfer attempt, in the
\* initial attempt or in a continuation, is propagated unchanged to the caller
\* of the acquisition: no failure kind is replaced by another on the way up.
C17_FailurePropagatedUnchanged ==
  (AttemptEnded /\ last.kind \in TransferFailures)
    => (Done /\ result = Err(last.status, last.kind))

\* C17 (amended): a terminal failure of the initial attempt is propagated
\* unchanged to the caller of the acquisition.  A terminal failure of a
\* continuation is swallowed by the invocation that called it, which goes on
\* with its next method; an acquisition that made a continuation and fails
\* reports the confirmation-exhausted error, whatever its continuations
\* failed with.
C17_InitialFailurePropagated ==
  /\ (AttemptEnded /\ last.kind \in TransferFailures /\ last.n = 1)
       => (Done /\ result = Err(last.status, last.kind))
  /\ (AttemptEnded /\ last.kind \in TransferFailures /\ last.n > 1)
       => (~Done /\ Running /\ Top.pc = "page")
  /\ (Failed /\ Len(attempts) >= 2)
       => (result.kind \in ConfirmationExhausted /\ result.status = 400)
\* the initial attempt received a body that the sniffer rejected
C17_Witness ==
  /\ AttemptEnded /\ last.n = 1 /\ last.kind = "invalid"
  /\ Done /\ result = Err(400, "invalid")

Repeated(f) ==
  {k \in f.stage..3 : Extracted(f, k) # NoUrl /\ Extracted(f, k) \in tried_urls}

\* C19 (as stated): when the URL that an invocation is about to request next
\* is already in the attempted-URL set, no request is issued for it and the
\* acquisition ends in a terminal duplicate-URL failure.
C19_RepeatIsTerminal ==
  [][(Running /\ Top.pc = "page" /\ Top.stage \in Repeated(Top))
       => (Done' /\ result'.kind = "duplicate" /\ attempts' = attempts)]_vars

\* C19 (amended): a candidate URL that is already in the attempted-URL set is
\* skipped: no continuation is called and no request is issued for it, and the
\* invocation goes on with its next method.  No invocation is entered with a
\* URL that is in the set, so the duplicate-URL failure is never raised.
C19_RepeatIsSkipped ==
  /\ [](/\ \A i \in 1..Len(stack) : stack[i].pc = "entry" => stack[i].url \notin tried_urls
        /\ result.kind # "duplicate")
  /\ [][(Running /\ Top.pc = "page")
          => /\ attempts' = attempts
             /\ \A k \in Repeated(Top) :
                  ~(Len(stack') > Len(stack) /\ stack'[Len(stack')].url = Extracted(Top, k))
             /\ (Top.stage \in Repeated(Top) /\ Len(stack') >= Len(stack))
                  => stack'[Len(stack)].stage > Top.stage]_vars
\* the next candidate of a page is a URL that has been attempted
C19_Witness ==
  /\ Running /\ Top.pc = "page" /\ Top.stage \in Repeated(Top)
  /\ Len(attempts) >= 2

\* C20: two acquisitions that run interleaved share no mutable acquisition
\* state.  The set an acquisition consults holds exactly the URLs that its own
\* invocations added, the two acquisitions hold different set objects, no
\* acquisition is rejected for a URL it has not attempted itself, and the
\* attempt counter of an acquisition counts only its own continuations.
C20_NoSharedAcquisitionState ==
  /\ \A a \in Acquisitions :
       LET q == conc.acq[a] IN
         /\ q.tried_urls # NoSet => conc.heap[q.tried_urls] = q.mine
         /\ q.outcome = "duplicate" => q.url \in q.mine
         /\ q.retry_count <= q.calls
  /\ \A a, b \in Acquisitions :
       (a # b /\ conc.acq[a].tried_urls # NoSet /\ conc.acq[b].tried_urls # NoSet)
         => conc.acq[a].tried_urls # conc.acq[b].tried_urls
\* both acquisitions wait for the answer to a request for the same URL, one
\* in its second continuation and the other in its initial attempt
C20_Witness ==
  /\ conc.acq[1].pc = "io" /\ conc.acq[2].pc = "io"
  /\ conc.acq[1].url = conc.acq[2].url
  /\ conc.acq[1].retry_count = 2 /\ conc.acq[2].retry_count = 0
  /\ conc.acq[1].mine # conc.acq[2].mine

\* the status codes of the structured errors of lines 235-719
StructuredStatuses == {400, 401, 403, 404, 408, 500, 503}

\* C21: an unexpected failure inside an attempt (an unparsable content-length,
\* a file that cannot be opened, a response read twice, a protocol error, a URL
\* the client refuses) ends the attempt with the generic internal error (500),
\* and whatever download_video_from_url raises to its caller is a structured
\* error with one of the statuses of the except clauses.
C21_UnexpectedIsInternal ==
  /\ (AttemptEnded /\ (last.unexpected # "none" \/ last.transport \in {"protocol", "unsupported"}))
       => (last.kind = "internal" /\ last.status = 500 /\ ~result.ok)
  /\ Failed => result.status \in StructuredStatuses
  /\ (AttemptEnded /\ ~Done) => last.status \in StructuredStatuses
\* the probe of the initial attempt declares a content-length that int() rejects
C21_Witness ==
  /\ AttemptEnded /\ last.unexpected = "bad_content_length" /\ last.n = 1
  /\ Done /\ result = Err(500, "internal")

\* C22: when the /analyze-video-url handler has finished on a path that
\* created the temporary directory (the acquisition failed, the extension is
\* not allowed, the analysis failed, a response was returned), the downloaded
\* file is gone under whatever extension it was written with, no file is left
\* in the directory and the directory has been removed.
C22_HandlerCleansUp ==
  (handler.pc = "finished" /\ handler.created)
    => /\ \A e \in HandlerExts : disk[e] = Absent
       /\ ~handler.temp_dir
\* the acquisition failed and left two files behind
C22_Witness ==
  /\ handler.pc = "finished" /\ handler.created
  /\ ~result.ok /\ result # NoResult
  /\ handler.left = {".mp4", ".mov"}

\* C23: when the response text of the model is not JSON, analyze_with_gemini
\* returns the default payload (is_interview true, ratings 5.0, empty lists)
\* and process_video completes, so the handler answers 200; every other
\* failure of the analysis stage (no model gave a response, the last model
\* tried raised an error, the response has no text) is raised: no payload is
\* returned and the handler answers 500.
C23_JsonFallbackOnly ==
  handler.pc \in {"finally", "finished"} =>
    /\ (handler.text = "not_json" /\ handler.failure = "none" /\ handler.status = 200)
         => handler.analysis = DefaultPayload
    /\ (handler.text = "not_json" /\ handler.idx > 0
        /\ handler.models[handler.idx] = "ok")
         => (handler.status = 200 /\ handler.failure = "none")
    /\ handler.failure \in {"no_response", "model_error", "response", "transcription"}
         => (handler.status = 500 /\ handler.analysis = NoAnalysis)
    /\ (handler.idx > 0 /\ handler.models[handler.idx] # "ok")
         => handler.failure \in {"no_response", "model_error"}
    /\ handler.analysis = DefaultPayload => handler.text = "not_json"
\* the first model is not found, the second answers with text that is not JSON
C23_Witness ==
  /\ handler.pc = "finished" /\ handler.status = 200
  /\ handler.models = <<"not_found", "ok">> /\ handler.text = "not_json"
  /\ handler.analysis = DefaultPayload

\* the extension the claim's table gives for a declared content type
DeclaredExtension(content_type) ==
  IF content_type = "video/mp4" THEN ".mp4"
  ELSE IF content_type = "video/webm" THEN ".webm"
  ELSE IF content_type \in {"video/quicktime", "video/mov"} THEN ".mov"
  ELSE IF content_type = "video/x-msvideo" THEN ".avi"
  ELSE None
HintCarriesExtension == naming.hint.given /\ naming.hint.ext # ""
\* C24: the output file's extension is the hint's extension whenever the hint
\* carries one; only when it carries none is it the extension of a declared
\* content type, and only when neither applies is it .mp4.  A declared
\* content type never overrides an extension given by the hint.
C24_HintExtensionWins ==
  naming.pc = "done" =>
    /\ HintCarriesExtension => naming.file_extension = naming.hint.ext
    /\ ~HintCarriesExtension =>
         LET declared == {DeclaredExtension(naming.head_ct), DeclaredExtension(naming.get_ct)}
                           \ {None}
         IN IF declared # {} THEN naming.file_extension \in declared
            ELSE naming.file_extension = ".mp4"

\* the first 12 bytes of the body an attempt has received so far, or all of
\* it when it is shorter
BodyPrefix(f) == Bytes(f.pat, f.total_size, 1, FIRST_BYTES_LEN)
C26_ContinuationUrlKept ==
  /\ Len(stack) >= 1 => ~stack[1].is_retry
  /\ \A i \in 2..Len(stack) :
       /\ stack[i].is_retry
       /\ stack[i].file_id # None /\ stack[i].file_id = stack[1].file_id
       /\ stack[i].pc # "entry" => stack[i].req = stack[i].url
\* the first invocation rewrote a share link and found the id A; its
\* continuation requests a link that names another resource
C26_Witness ==
  /\ Len(stack) = 2 /\ stack[1].url = Share("A") /\ stack[1].req = Uc("A")
  /\ stack[2].pc = "get" /\ stack[2].url = Uc(OtherId) /\ stack[2].req = Uc(OtherId)
  /\ stack[2].file_id = "A"

\* the invocations that were called with the generic-token URL
GenericRequests == {i \in 1..Len(attempts) : attempts[i].req.k = "ucc" /\ attempts[i].req.tok = "t"}
\* C27 as stated: the URL uc?export=download&confirm=t&id=<id> is requested
\* at most once, and an invocation is called with it only by the page of the
\* first invocation (attempt count 0), after every other candidate of higher
\* priority of that page is missing, was attempted before or has failed.
C27_GenericUrlOnlyFromInitialPage ==
  /\ Cardinality(GenericRequests) <= 1
  /\ \A i \in 1..Len(stack) :
       (stack[i].url.k = "ucc" /\ stack[i].url.tok = "t")
         => /\ i = 2 /\ stack[1].retry_count = 0 /\ stack[1].pc = "page"
            /\ \A k \in 1..3 : \/ Extracted(stack[1], k) \in {NoUrl, stack[i].url}
                               \/ Extracted(stack[1], k) \in tried_urls
\* a step in which a page takes its last resort, the generic token
GenericCall == /\ Running /\ Top.pc = "page"
               /\ Len(stack') = Len(stack) + 1
               /\ stack'[Len(stack)].stage = 5
\* C27 amended: the last resort of a page, the generic token, is taken only by
\* the first invocation (attempt count 0), only when every candidate of
\* higher priority is missing, was attempted before or has failed, and only
\* when the generic-token URL was not attempted before; the URL is requested
\* at most once in an acquisition, by whichever way it is reached.
C27_GenericLastResort ==
  [][/\ GenericCall =>
          /\ Len(stack) = 1 /\ Top.retry_count = 0 /\ ~Top.is_retry
          /\ stack'[2].url = UcConfirm("t", Top.file_id)
          /\ stack'[2].url \notin tried_urls
          /\ \A k \in 1..3 : \/ Extracted(Top, k) = NoUrl
                             \/ Extracted(Top, k) \in tried_urls
     /\ Cardinality(GenericRequests') <= 1]_vars
\* the initial page has a hidden token and a download link; both
\* continuations failed and the generic-token URL is being requested
C27_Witness ==
  /\ Len(stack) = 2 /\ stack[1].stage = 5 /\ stack[1].retry_count = 0
  /\ stack[1].page.hidden = "x" /\ stack[1].page.link = Uc("A")
  /\ stack[2].url = UcConfirm("t", "A") /\ stack[2].pc = "get"
  /\ Cardinality(GenericRequests) = 1

\* C28: at every point of a streamed transfer the bytes written to the output
\* file are at most the ceiling: a chunk is added to the total and the total
\* is checked before the chunk is written, so what is written is the total
\* as long as it is within the ceiling; a body of exactly the ceiling size is
\* not refused for its size.
C28_WrittenWithinCeiling ==
  /\ \A i \in 1..Len(stack) :
       /\ stack[i].written <= MaxSizeBytes
       /\ stack[i].pc = "stream" => stack[i].written = stack[i].total_size
  /\ last.written <= MaxSizeBytes
  /\ (AttemptEnded /\ last.kind = "size_exceeded")
       => (last.total_size > MaxSizeBytes /\ last.written <= MaxSizeBytes
           /\ last.written < last.total_size)
  /\ (AttemptEnded /\ last.total_size <= MaxSizeBytes) => last.written = last.total_size
\* a body of exactly the ceiling size, received in two chunks and accepted
C28_Witness ==
  /\ AttemptEnded /\ last.total_size = MaxSizeBytes /\ last.written = MaxSizeBytes
  /\ last.verdict = "valid" /\ Done /\ result.ok

\* C29: the attempt count of an invocation is its depth in the recursion;
\* requests are issued only by invocations with attempt count 0, 1 or 2; an
\* invocation with attempt count 3 fails at once, with no request and no
\* change of the attempted-URL set; the page of the first invocation calls at
\* most 4 continuations and every other page at most 3; no acquisition makes
\* more than 17 transfer attempts.
C29_DepthAndFanOut ==
  [][/\ \A i \in 1..Len(stack') :
          /\ stack'[i].retry_count = i - 1
          /\ stack'[i].pc # "entry" => stack'[i].retry_count < MAX_RETRIES
          /\ stack'[i].calls <= (IF stack'[i].retry_count = 0 THEN 4 ELSE 3)
     /\ \A i \in 1..Len(attempts') : attempts'[i].retry_count \in 0..(MAX_RETRIES - 1)
     /\ (Running /\ Top.pc = "entry" /\ Top.retry_count >= MAX_RETRIES)
          => /\ tried_urls' = tried_urls /\ attempts' = attempts
             /\ Len(stack') = Len(stack) - 1
     \* the first attempt, the continuations of its page, and the
     \* continuations of the pages these receive
     /\ Len(attempts') <= 1 + 4 + 4 * 3]_vars
\* the page of the first invocation has called its 4 continuations; the
\* last of them received a page, whose continuation received a page, whose
\* continuation is called with attempt count 3
C29_Witness ==
  /\ Len(stack) = 4 /\ stack[1].calls = 4
  /\ Top.pc = "entry" /\ Top.retry_count = MAX_RETRIES
  /\ Len(attempts) >= 6

\* C30: when an acquisition returns (path, size), the value was produced by
\* the invocation that was streaming a body: this invocation received no
\* interstitial page, its body ended within the ceiling and the sniffer
\* accepted it; the file at the returned path exists and holds exactly the
\* bytes received, and the size is the number of bytes received, in MB.
C30_SuccessIsAValidatedTransfer ==
  [][(~Done /\ Done' /\ result'.ok)
       => /\ Top.pc = "stream" /\ Top.page = NoPage /\ Top.aid = Len(attempts)
          /\ Top.total_size <= MaxSizeBytes
          /\ last'.verdict = "valid"
          /\ \E probe \in FfprobeOutcomes :
               IsValidVideoFile(Top.final_ext, Given(Top.first_bytes),
                                File(Top.pat, Top.total_size), probe)
          /\ result'.ext = Top.final_ext /\ disk'[result'.ext] = Present
          /\ Content(Top, disk') = File(Top.pat, Top.total_size)
          /\ result'.size = FileSizeMB(Top.total_size)
          /\ BytesOf(result'.size) = Top.total_size]_vars
\* a continuation of an interstitial page received 8192 bytes, which is a
\* fraction of one MB, and the acquisition returned them
C30_Witness ==
  /\ Done /\ result.ok /\ pages_sent >= 1 /\ Len(attempts) >= 2
  /\ last.total_size = CHUNK_SIZE /\ last.written = CHUNK_SIZE /\ last.file_exists
  /\ result.size = [mb |-> 0, rest |-> CHUNK_SIZE]

====
